---- MODULE Spec2Model ----
EXTENDS Integers, Sequences, FiniteSets, TLC

\* Plugin manifest (tool.toml) of src/src/hardware/manifest.rs: the text of a
\* manifest, its deserialization into ToolManifest (serde derive over toml),
\* and the two consumers of a loaded manifest, the JSON-Schema projection and
\* the argument normalization.

VARIABLES text, phase, manifest, schema, args, normOut

vars == <<text, phase, manifest, schema, args, normOut>>

\* ------------------------------------------------------------------------
\* Bounds
MaxParams == 2
MaxCallParams == 2

\* ------------------------------------------------------------------------
\* TOML scalars as written in the manifest text: TOML type and literal text.
NoVal == [k |-> "none", v |-> ""]
TomlStr(s) == [k |-> "str", v |-> s]
TomlInt(s) == [k |-> "int", v |-> s]
TomlBool(s) == [k |-> "bool", v |-> s]

\* serde_json::Value built from a TOML scalar (Option<serde_json::Value>).
JNone == [k |-> "None", v |-> ""]
TomlToJson(x) ==
  CASE x.k = "str"  -> [k |-> "String", v |-> x.v]
    [] x.k = "int"  -> [k |-> "Number", v |-> x.v]
    [] x.k = "bool" -> [k |-> "Bool", v |-> x.v]

\* Deserialization results.
Ok(x) == [ok |-> TRUE, val |-> x]
Err == [ok |-> FALSE, val |-> "parse error"]

\* A String field that falls back to "" when missing.
ParseStrOrEmpty(x) ==
  IF x.k = "str" THEN Ok(x.v) ELSE IF x.k = "none" THEN Ok("") ELSE Err

\* String field: missing field or non-string value is an error.
ParseStr(x) == IF x.k = "str" THEN Ok(x.v) ELSE Err

\* bool field: missing field or non-boolean value is an error.
ParseBool(x) == IF x.k = "bool" THEN Ok(x.v = "true") ELSE Err

\* Option<serde_json::Value>: a missing field is None, any scalar converts.
ParseOptValue(x) == IF x.k = "none" THEN Ok(JNone) ELSE Ok(TomlToJson(x))

\* struct ToolMeta { name, version, description: String }
ParseToolMeta(t) ==
  IF ~t.present THEN Err
  ELSE LET n == ParseStr(t.name)
           v == ParseStr(t.version)
           d == ParseStr(t.description)
       IN IF n.ok /\ v.ok /\ d.ok
          THEN Ok([name |-> n.val, version |-> v.val, description |-> d.val])
          ELSE Err

\* struct ExecConfig { binary: String }
ParseExecConfig(e) ==
  IF ~e.present THEN Err
  ELSE LET b == ParseStr(e.binary)
       IN IF b.ok THEN Ok([binary |-> b.val]) ELSE Err

\* transport: Option<TransportConfig { preferred: String, device_required: bool }>
NoTransport == [some |-> FALSE, preferred |-> "", device_required |-> FALSE]
ParseTransport(t) ==
  IF ~t.present THEN Ok(NoTransport)
  ELSE LET p == ParseStr(t.preferred)
           r == ParseBool(t.device_required)
       IN IF p.ok /\ r.ok
          THEN Ok([some |-> TRUE, preferred |-> p.val, device_required |-> r.val])
          ELSE Err

\* ParameterDef with the default field skipped by deserialization.
ParseParameterDefNoDefault(b) ==
  LET n == ParseStr(b.name)
      t == ParseStr(b.type)
      d == ParseStr(b.description)
      r == ParseBool(b.required)
  IN IF n.ok /\ t.ok /\ d.ok /\ r.ok
     THEN Ok([name |-> n.val, type |-> t.val, description |-> d.val,
              required |-> r.val, default |-> JNone])
     ELSE Err

\* struct ParameterDef { name, type, description: String, required: bool,
\*                       default: Option<serde_json::Value> }
ParseParameterDef(b) ==
  LET n == ParseStr(b.name)
      t == ParseStr(b.type)
      d == ParseStr(b.description)
      r == ParseBool(b.required)
      v == ParseOptValue(b.default)
  IN IF n.ok /\ t.ok /\ d.ok /\ r.ok /\ v.ok
     THEN Ok([name |-> n.val, type |-> t.val, description |-> d.val,
              required |-> r.val, default |-> v.val])
     ELSE Err

\* parameters without #[serde(default)]: a missing field is an error.
ParseParametersNoDefault(ps) ==
  IF ~ps.present THEN Err
  ELSE IF \A i \in DOMAIN ps.blocks : ParseParameterDef(ps.blocks[i]).ok
       THEN Ok([i \in DOMAIN ps.blocks |-> ParseParameterDef(ps.blocks[i]).val])
       ELSE Err

\* #[serde(default)] parameters: Vec<ParameterDef>
ParseParameters(ps) ==
  IF ~ps.present THEN Ok(<<>>)
  ELSE IF \A i \in DOMAIN ps.blocks : ParseParameterDef(ps.blocks[i]).ok
       THEN Ok([i \in DOMAIN ps.blocks |-> ParseParameterDef(ps.blocks[i]).val])
       ELSE Err

\* toml::from_str::<ToolManifest>(text)
ParseManifest(t) ==
  LET tm == ParseToolMeta(t.tool)
      ex == ParseExecConfig(t.exec)
      tr == ParseTransport(t.transport)
      pa == ParseParameters(t.parameters)
  IN IF tm.ok /\ ex.ok /\ tr.ok /\ pa.ok
     THEN Ok([tool |-> tm.val, exec |-> ex.val, transport |-> tr.val,
              parameters |-> pa.val])
     ELSE Err

\* ------------------------------------------------------------------------
\* Manifest texts.
SeqsUpTo(S, n) == UNION {[1..m -> S] : m \in 0..n}

ToolTables(ns, vs, ds) ==
  {[present |-> FALSE, name |-> NoVal, version |-> NoVal, description |-> NoVal]}
  \cup [present : {TRUE}, name : ns, version : vs, description : ds]
ExecTables(bs) ==
  {[present |-> FALSE, binary |-> NoVal]} \cup [present : {TRUE}, binary : bs]
TransportTables(ps, rs) ==
  {[present |-> FALSE, preferred |-> NoVal, device_required |-> NoVal]}
  \cup [present : {TRUE}, preferred : ps, device_required : rs]
ParamBlocks(ns, ts, rs, ds) ==
  [name : ns, type : ts, description : {TomlStr("d")}, required : rs, default : ds]
ParamLists(B, n) ==
  {[present |-> FALSE, blocks |-> <<>>]} \cup [present : {TRUE}, blocks : SeqsUpTo(B, n)]

ValidTool == [present |-> TRUE, name |-> TomlStr("n"), version |-> TomlStr("v"),
              description |-> TomlStr("d")]
ValidExec == [present |-> TRUE, binary |-> TomlStr("b")]
NoTransportTable == [present |-> FALSE, preferred |-> NoVal, device_required |-> NoVal]

\* Texts varying the [tool], [exec] and [transport] tables.
TextsLoad ==
  [tool : ToolTables({NoVal, TomlStr("n"), TomlInt("1")}, {NoVal, TomlStr("v")}, {NoVal, TomlStr("d")}),
   exec : ExecTables({NoVal, TomlStr("b"), TomlInt("1")}),
   transport : TransportTables({NoVal, TomlStr("serial")},
                               {NoVal, TomlBool("true"), TomlBool("false")}),
   parameters : ParamLists(ParamBlocks({TomlStr("p"), TomlStr("q")}, {TomlStr("integer")},
                                       {TomlBool("true"), TomlBool("false")},
                                       {NoVal, TomlInt("50")}), MaxParams)]

\* Texts with valid [tool] and [exec], no [transport], varying the
\* [[parameters]] blocks (types outside the documented set, defaults of
\* another type, required with default, repeated names).
TextsParams ==
  [tool : {ValidTool}, exec : {ValidExec}, transport : {NoTransportTable},
   parameters : ParamLists(ParamBlocks({TomlStr("p"), TomlStr("q")},
                                       {TomlStr("integer"), TomlStr("float")},
                                       {TomlBool("true"), TomlBool("false")},
                                       {NoVal, TomlInt("50"), TomlStr("x")}), MaxParams)]

\* Texts whose parameters use the three documented types, for the consumers.
TextsCall ==
  [tool : {ValidTool}, exec : {ValidExec}, transport : {NoTransportTable},
   parameters : ParamLists(ParamBlocks({TomlStr("p"), TomlStr("q")},
                                       {TomlStr("string"), TomlStr("integer"), TomlStr("boolean")},
                                       {TomlBool("true"), TomlBool("false")},
                                       {NoVal, TomlInt("50")}), MaxCallParams)]

\* ------------------------------------------------------------------------
\* Schema projection of ToolManifest.parameters ("Parameter definitions used
\* to build the JSON Schema for the LLM").
SchemaType(t) ==
  CASE t = "string"  -> "string"
    [] t = "integer" -> "integer"
    [] t = "boolean" -> "boolean"
    [] OTHER         -> "unrepresentable"

\* Required list naming every parameter.
RequiredNamesAll(ps) == [i \in DOMAIN ps |-> ps[i].name]

RECURSIVE RequiredNames(_)
RequiredNames(ps) ==
  IF ps = <<>> THEN <<>>
  ELSE (IF Head(ps).required THEN <<Head(ps).name>> ELSE <<>>) \o RequiredNames(Tail(ps))

ProjectSchema(ps) ==
  [ok |-> \A i \in DOMAIN ps : SchemaType(ps[i].type) # "unrepresentable",
   properties |->
     [n \in {ps[i].name : i \in DOMAIN ps} |->
        LET j == CHOOSE j \in DOMAIN ps :
                   /\ ps[j].name = n
                   /\ \A l \in DOMAIN ps : ps[l].name = n => l <= j
        IN [type |-> SchemaType(ps[j].type), description |-> ps[j].description]],
   required |-> RequiredNames(ps)]

\* ------------------------------------------------------------------------
\* Argument normalization: caller-supplied map name -> JSON value (JNone when
\* the key is absent); the keys are the parameter names p, q and an
\* undeclared key z. A JSON number is "Number" when integral (i64/u64) and
\* "Float" otherwise.
ArgKeys == {"p", "q", "z"}
NoArgs == [p |-> JNone, q |-> JNone, z |-> JNone]
ArgVals == {JNone, [k |-> "String", v |-> "a"], [k |-> "Number", v |-> "7"],
            [k |-> "Float", v |-> "1.5"], [k |-> "Bool", v |-> "true"]}
ArgMaps == [p : ArgVals, q : ArgVals, z : {JNone, [k |-> "Number", v |-> "7"]}]

\* Runtime type check: an integer parameter takes an integral number only.
ValueHasType(x, t) ==
  \/ t = "string" /\ x.k = "String"
  \/ t = "integer" /\ x.k = "Number"
  \/ t = "boolean" /\ x.k = "Bool"

NormOk(out) == [ok |-> TRUE, out |-> out, kind |-> "", names |-> {}]
NormErr(kind, nms) == [ok |-> FALSE, out |-> NoArgs, kind |-> kind, names |-> nms]

\* Step 1: names of required parameters absent from the map.
MissingRequired(ps, a) ==
  {ps[i].name : i \in {i \in DOMAIN ps : ps[i].required /\ a[ps[i].name].k = "None"}}
\* Step 3: names of parameters whose supplied value has the wrong type.
TypeMismatches(ps, a) ==
  {ps[i].name : i \in {i \in DOMAIN ps : a[ps[i].name].k # "None" /\
                                          ~ValueHasType(a[ps[i].name], ps[i].type)}}
\* Step 4: supplied keys that are not declared parameters.
UnknownKeys(ps, a) ==
  {key \in ArgKeys : a[key].k # "None" /\ key \notin {ps[j].name : j \in DOMAIN ps}}

\* Steps 2 and 3: the normalized map, built in declaration order (a supplied
\* value is kept, an absent one takes its declared default or stays absent).
RECURSIVE ApplyParams(_, _, _, _)
ApplyParams(ps, a, i, acc) ==
  IF i > Len(ps) THEN acc
  ELSE LET prm == ps[i]
       IN IF a[prm.name].k # "None"
          THEN ApplyParams(ps, a, i + 1, [acc EXCEPT ![prm.name] = a[prm.name]])
          ELSE IF prm.default.k # "None"
               THEN ApplyParams(ps, a, i + 1, [acc EXCEPT ![prm.name] = prm.default])
               ELSE ApplyParams(ps, a, i + 1, acc)

\* Normalization that passes undeclared keys through.
NormalizeArgsOpen(ps, a) ==
  LET missing == MissingRequired(ps, a)
      mismatched == TypeMismatches(ps, a)
      out == ApplyParams(ps, a, 1, NoArgs)
  IN IF missing # {} THEN NormErr("missing required parameter", missing)
     ELSE IF mismatched # {} THEN NormErr("type mismatch", mismatched)
     ELSE NormOk([key \in ArgKeys |->
                    IF key \in {ps[j].name : j \in DOMAIN ps} THEN out[key] ELSE a[key]])

\* Each error names every parameter (or key) it concerns.
NormalizeArgs(ps, a) ==
  LET missing == MissingRequired(ps, a)
      mismatched == TypeMismatches(ps, a)
      unknown == UnknownKeys(ps, a)
  IN IF missing # {} THEN NormErr("missing required parameter", missing)
     ELSE IF mismatched # {} THEN NormErr("type mismatch", mismatched)
     ELSE IF unknown # {} THEN NormErr("unknown parameter", unknown)
     ELSE NormOk(ApplyParams(ps, a, 1, NoArgs))

\* ------------------------------------------------------------------------
InitWith(T) ==
  /\ text \in T
  /\ phase = "start"
  /\ manifest = "none"
  /\ schema = "none"
  /\ args = NoArgs
  /\ normOut = "none"

\* The plugin loader reads tool.toml and deserializes it into a ToolManifest.
Load ==
  /\ phase = "start"
  /\ LET r == ParseManifest(text)
     IN /\ phase' = IF r.ok THEN "loaded" ELSE "parse_error"
        /\ manifest' = r.val
  /\ UNCHANGED <<text, schema, args, normOut>>

\* The loaded manifest's parameters are projected into the tool's schema.
Project ==
  /\ phase = "loaded"
  /\ phase' = "projected"
  /\ schema' = ProjectSchema(manifest.parameters)
  /\ UNCHANGED <<text, manifest, args, normOut>>

\* A call's arguments are normalized against the manifest.
Normalize ==
  /\ phase = "projected"
  /\ \E a \in ArgMaps :
       /\ args' = a
       /\ normOut' = NormalizeArgs(manifest.parameters, a)
  /\ phase' = "normalized"
  /\ UNCHANGED <<text, manifest, schema>>

Next == Load \/ Project \/ Normalize

InitLoad == InitWith(TextsLoad)
InitParams == InitWith(TextsParams)
InitCall == InitWith(TextsCall)

SpecLoad == InitLoad /\ [][Next]_vars
SpecParams == InitParams /\ [][Next]_vars
Spec == InitCall /\ [][Next]_vars

\* ------------------------------------------------------------------------
\* Properties of the manifest and its consumers.

Loaded == phase \in {"loaded", "projected", "normalized"}
Params == manifest.parameters

\* Text predicates.
IsStr(x) == x.k = "str"
BlockWellFormed(b) ==
  IsStr(b.name) /\ IsStr(b.type) /\ IsStr(b.description) /\ b.required.k = "bool"
IdentityOnly(t) ==
  /\ t.tool.present /\ IsStr(t.tool.name) /\ IsStr(t.tool.version)
  /\ IsStr(t.tool.description)
  /\ t.exec.present /\ IsStr(t.exec.binary)
  /\ ~t.transport.present
  /\ ~t.parameters.present
WellFormedText(t) ==
  /\ t.tool.present /\ IsStr(t.tool.name) /\ IsStr(t.tool.version)
  /\ IsStr(t.tool.description)
  /\ t.exec.present /\ IsStr(t.exec.binary)
  /\ t.transport.present => IsStr(t.transport.preferred) /\ t.transport.device_required.k = "bool"
  /\ t.parameters.present => \A i \in DOMAIN t.parameters.blocks : BlockWellFormed(t.parameters.blocks[i])
MissingRequiredField(t) ==
  \/ ~t.tool.present
  \/ t.tool.name.k = "none" \/ t.tool.version.k = "none" \/ t.tool.description.k = "none"
  \/ ~t.exec.present
  \/ t.exec.binary.k = "none"
Blocks == IF text.parameters.present THEN text.parameters.blocks ELSE <<>>
\* A declared default as loaded: same literal, JSON kind of its TOML kind.
DefaultKept(b, d) ==
  IF b.k = "none" THEN d = JNone
  ELSE /\ d.v = b.v
       /\ (b.k = "int" <=> d.k = "Number")
       /\ (b.k = "str" <=> d.k = "String")
       /\ (b.k = "bool" <=> d.k = "Bool")

\* C1: a manifest text with only [tool] (name, version, description) and
\* [exec] (binary), no [transport] and no [[parameters]], parses; the result
\* has an empty parameters sequence and no transport.
C1_IdentityOnlyParses ==
  phase # "start" /\ IdentityOnly(text) =>
    /\ Loaded
    /\ Params = <<>>
    /\ ~manifest.transport.some
C1_Witness == phase = "loaded" /\ IdentityOnly(text)

\* C2: parsing a well-formed manifest keeps tool.name, tool.version,
\* exec.binary, the transport block's preferred and device_required, and one
\* parameter per [[parameters]] block in declaration order with its required
\* flag and default (None when not declared).
C2_FieldsPreserved ==
  phase # "start" /\ WellFormedText(text) =>
    /\ Loaded
    /\ manifest.tool.name = text.tool.name.v
    /\ manifest.tool.version = text.tool.version.v
    /\ manifest.exec.binary = text.exec.binary.v
    /\ manifest.transport.some = text.transport.present
    /\ text.transport.present =>
         /\ manifest.transport.preferred = text.transport.preferred.v
         /\ manifest.transport.device_required = (text.transport.device_required.v = "true")
    /\ Len(Params) = Len(Blocks)
    /\ \A i \in DOMAIN Blocks :
         /\ Params[i].name = Blocks[i].name.v
         /\ Params[i].required = (Blocks[i].required.v = "true")
         /\ DefaultKept(Blocks[i].default, Params[i].default)
C2_Witness ==
  /\ phase = "loaded" /\ text.transport.present /\ Len(Params) = 2
  /\ Params[1].name # Params[2].name
  /\ \E i \in DOMAIN Params : Params[i].default # JNone

\* C3: a manifest text missing tool.name, tool.version, tool.description or
\* exec.binary (or a whole [tool] / [exec] table) fails to parse; no default
\* is supplied for these fields.
C3_MissingFieldFails ==
  phase # "start" /\ MissingRequiredField(text) => phase = "parse_error"
C3_Witness ==
  /\ phase = "parse_error" /\ text.tool.present /\ text.tool.name.k = "none"
  /\ IsStr(text.tool.version) /\ IsStr(text.tool.description)
  /\ text.exec.present /\ IsStr(text.exec.binary)

\* C4: no loaded manifest has a parameter whose type is outside
\* {string, integer, boolean}.
C4_TypeInEnumeration ==
  Loaded => \A i \in DOMAIN Params : Params[i].type \in {"string", "integer", "boolean"}

\* C5: every loaded manifest has required => default = None for
\* each parameter.
C5_RequiredHasNoDefault ==
  Loaded => \A i \in DOMAIN Params : Params[i].required => Params[i].default = JNone
\* C6: every loaded manifest has pairwise distinct parameter names.
C6_DistinctNames ==
  Loaded => \A i, j \in DOMAIN Params : i # j => Params[i].name # Params[j].name

\* C7: in every loaded manifest each present default matches its
\* parameter's type.
C7_DefaultMatchesType ==
  Loaded => \A i \in DOMAIN Params :
              Params[i].default # JNone => ValueHasType(Params[i].default, Params[i].type)

\* A parameter list satisfying the manifest rules of the loader contract:
\* distinct names, documented types, no default on a required parameter,
\* defaults of the declared type.
SpecValid(ps) ==
  /\ \A i, j \in DOMAIN ps : i # j => ps[i].name # ps[j].name
  /\ \A i \in DOMAIN ps : ps[i].type \in {"string", "integer", "boolean"}
  /\ \A i \in DOMAIN ps : ps[i].required => ps[i].default = JNone
  /\ \A i \in DOMAIN ps : ps[i].default # JNone => ValueHasType(ps[i].default, ps[i].type)

\* C8: for a valid manifest the projected schema has one property per
\* parameter (name -> {type, description}, types mapped one to one) and its
\* required list is exactly the required parameters' names in declaration
\* order; the projection does not fail.
C8_SchemaProjection ==
  phase \in {"projected", "normalized"} /\ SpecValid(Params) =>
    /\ schema.ok
    /\ DOMAIN schema.properties = {Params[i].name : i \in DOMAIN Params}
    /\ Cardinality(DOMAIN schema.properties) = Len(Params)
    /\ \A i \in DOMAIN Params :
         schema.properties[Params[i].name] =
           [type |-> Params[i].type, description |-> Params[i].description]
    /\ \E f \in [DOMAIN schema.required -> DOMAIN Params] :
         /\ \A j \in DOMAIN schema.required : schema.required[j] = Params[f[j]].name
         /\ \A j1, j2 \in DOMAIN schema.required : j1 < j2 => f[j1] < f[j2]
         /\ {f[j] : j \in DOMAIN schema.required} = {i \in DOMAIN Params : Params[i].required}
C8_Witness ==
  /\ phase = "projected" /\ SpecValid(Params) /\ Len(Params) = 2
  /\ \E i \in DOMAIN Params : Params[i].required
  /\ \E i \in DOMAIN Params : ~Params[i].required

Omitted(i) == args[Params[i].name] = JNone

\* C9: for each declared parameter P the argument map omits, a required P
\* makes normalization fail with a missing-required-parameter error naming
\* P; an optional P is mapped to its default D, or absent from the result
\* when it has none.
C9_OmittedParameters ==
  phase = "normalized" =>
    \A i \in DOMAIN Params : Omitted(i) =>
      IF Params[i].required
      THEN /\ ~normOut.ok
           /\ normOut.kind = "missing required parameter"
           /\ Params[i].name \in normOut.names
      ELSE normOut.ok => normOut.out[Params[i].name] = Params[i].default

UnknownKey ==
  \E key \in ArgKeys : args[key] # JNone /\ key \notin {Params[i].name : i \in DOMAIN Params}
Mistyped ==
  \E i \in DOMAIN Params : ~Omitted(i) /\ ~ValueHasType(args[Params[i].name], Params[i].type)
WellTypedArgs ==
  /\ ~UnknownKey
  /\ \A i \in DOMAIN Params :
       /\ Params[i].required => ~Omitted(i)
       /\ ~Omitted(i) => ValueHasType(args[Params[i].name], Params[i].type)

\* C10: normalization rejects an undeclared key and a value of the wrong
\* type, and succeeds for every map giving each required parameter a value
\* of its type and each optional parameter either nothing or a value of its
\* type.
C10_ClosedGate ==
  phase = "normalized" =>
    /\ UnknownKey => ~normOut.ok
    /\ Mistyped => ~normOut.ok
    /\ WellTypedArgs => normOut.ok
C10_Witness ==
  /\ phase = "normalized" /\ WellTypedArgs /\ normOut.ok /\ Len(Params) = 2
  /\ \A i \in DOMAIN Params : ~Omitted(i)

====
